---- MODULE Spec2Model ----
(***************************************************************************)
(* Model of the landing page script (src/unnamed/part_000): the           *)
(* ParticleGlobe module (lines 1010-1228) and, of the page around it, the  *)
(* application start-up (CodlessApp), the overlay Navigation, the          *)
(* newsletter FormHandling and the NavbarScrollBehavior.                   *)
(*                                                                         *)
(* Numbers.  JavaScript doubles are modelled in fixed point:               *)
(*   - lengths, coordinates, noise values and pointer coordinates in       *)
(*     thousandths (5 is 5000),                                            *)
(*   - clickStrength in millionths (15 is 15000000), because its clamp     *)
(*     threshold 0.01 needs the finer grain,                               *)
(*   - colour channels as the 0..255 bytes of the hex colour strings.      *)
(* Every product is rounded to the nearest unit (RoundDiv), as a floating  *)
(* point product is rounded to the nearest representable value.            *)
(*                                                                         *)
(* Libraries.  THREE and SimplexNoise are not part of the repository.      *)
(* The ray cast is the analytic ray/sphere intersection, the orbit control *)
(* turns the camera about the y axis in quarter turns, and the noise is a  *)
(* seeded triangle wave with values in [-1, 1]; each is described at its   *)
(* definition.  The container element is assumed to exist (init returns    *)
(* at line 1013 otherwise and nothing of the module ever runs).            *)
(***************************************************************************)
EXTENDS Integers, Sequences, FiniteSets, TLC

VARIABLES
    isInView,            \* this.isInView
    isTouchDevice,       \* this.isTouchDevice
    isRendered,          \* this.isRendered
    clickPoint,          \* this.clickPoint (Vector3)
    clickStrength,       \* this.clickStrength, in millionths
    noiseSeed,           \* the permutation new SimplexNoise() drew
    clockReads,          \* number of getElapsedTime() calls made on this.clock
    mouse,               \* this.mouse (Vector2, normalized device coordinates)
    originalPositions,   \* this.originalPositions, one <<x,y,z>> per particle
    animatedPositions,   \* this.animatedPositions = the position attribute
    colors,              \* the color attribute, one <<r,g,b>> per particle
    bufferVersion,       \* <<position.version, color.version>> (needsUpdate = true)
    cameraAspect,        \* this.camera.aspect as <<numerator, denominator>>
    projectionMatrix,    \* the aspect the projection matrix was last built from
    rendererSize,        \* the size last given to renderer.setSize
    cameraAzimuth,       \* orbit position of the camera, in quarter turns
    containerSize,       \* <<clientWidth, clientHeight>> of the container
    pendingFrames,       \* requestAnimationFrame callbacks not yet run
    renderCalls,         \* number of renderer.render calls made
    initDone,            \* init() has returned
    lastOp,              \* the handler that ran last
    frame,               \* the locals of the last executed frame update
    framesSinceHit,      \* executed frame updates since the last hit of triggerDisperse
    framesSinceInput     \* executed frame updates since the last pointer/click/touch event

globeVars == <<isInView, isTouchDevice, isRendered, clickPoint, clickStrength, noiseSeed,
          clockReads, mouse, originalPositions, animatedPositions, colors,
          bufferVersion, cameraAspect, projectionMatrix, rendererSize, cameraAzimuth,
          containerSize, pendingFrames, renderCalls, initDone, lastOp, frame,
          framesSinceHit, framesSinceInput>>

VARIABLES
    dom,                 \* the selectors that match an element of the document
    lenisLoaded,         \* typeof Lenis !== 'undefined'
    initLog,             \* the modules whose init CodlessApp has invoked, in order
    errorLog,            \* the modules whose failure initializeModules has logged
    cleanupListeners,    \* beforeunload listeners registered by setupCleanup
    navListeners,        \* the listeners Navigation.setupEventListeners has registered
    hamburgerActive,     \* the hamburger has class 'active'
    overlayActive,       \* the overlay has class 'active'
    bodyOverflow,        \* document.body.style.overflow
    lenis,               \* LenisSmoothScrolling.lenis: "none", "running" or "stopped"
    submitListener,      \* the newsletter form has its submit listener
    emailValue,          \* value of the form's email input, a sequence of characters
    errorElement,        \* textContent, className and role of #newsletter-error
    ariaInvalid,         \* the email input's aria-invalid attribute
    notifications,       \* the notification elements in the document, oldest first
    navbarHidden,        \* the navbar has class 'navbar-hidden'
    ariaHidden,          \* the navbar's aria-hidden attribute as last written
    isInitialized,       \* NavbarScrollBehavior.isInitialized
    scrollTriggerDefined, \* typeof ScrollTrigger !== 'undefined'
    waitTimer,           \* a waitForScrollTrigger timeout is pending
    lastUpdate,          \* <<direction, scroll>> of the last scroll update handled
    loadHandled,         \* the timeout of the window's load listener has run
    pageOp               \* the page event handled last

appVars == <<initLog, errorLog, cleanupListeners>>

navVars == <<navListeners, hamburgerActive, overlayActive, bodyOverflow, lenis>>

formVars == <<submitListener, emailValue, errorElement, ariaInvalid, notifications>>

navbarVars == <<navbarHidden, ariaHidden, isInitialized, scrollTriggerDefined,
                waitTimer, lastUpdate, loadHandled>>

VARIABLES
    loadingPhase,        \* how far LoadingScreen has come: "idle", "loading",
                         \* "fading", "entering" or "entered"
    videoReadyState,     \* readyState of the hero video
    metadataListener,    \* the once-listener for 'loadedmetadata' is attached
    scrollSystemInits,   \* runs of the body of initScrollSystem
    lenisCreated,        \* Lenis instances constructed
    orphanLenis,         \* the instances LenisSmoothScrolling.lenis no longer refers to
    scrollerProxies,     \* calls of ScrollTrigger.scrollerProxy
    rafLoops,            \* self-rescheduling animation-frame loops started
    faqExpanded,         \* per question: aria-expanded is 'true'
    faqAriaHidden,       \* per question: its answer's aria-hidden is 'true'
    faqDisplay,          \* per question: its answer's display
    faqTweens,           \* the height tweens running on answers, oldest first
    faqToggled,          \* the question handleToggleFAQ ran on last, 0 before
    toolsTouch,          \* isTouchDevice of ToolsAnimation.init
    activeMoon,          \* activeMoon of ToolsAnimation.init, 0 for null
    moonActivated,       \* per moon: activateMoon acted on it last (not resetMoon)
    moonPlayState,       \* per moon: style.animationPlayState
    toolsIntersecting,   \* what the tools observer reported last
    eventMoon            \* the moon of the last click or hover event, 0 for none

loadVars == <<loadingPhase, videoReadyState, metadataListener, scrollSystemInits>>

lenisVars == <<lenisCreated, orphanLenis, scrollerProxies, rafLoops>>

faqVars == <<faqExpanded, faqAriaHidden, faqDisplay, faqTweens, faqToggled>>

toolVars == <<toolsTouch, activeMoon, moonActivated, moonPlayState, toolsIntersecting,
              eventMoon>>

widgetVars == <<loadVars, lenisVars, faqVars, toolVars>>

pageVars == <<dom, lenisLoaded, appVars, navVars, formVars, navbarVars, widgetVars,
              pageOp>>

vars == <<globeVars, pageVars>>

-----------------------------------------------------------------------------
(* Bounds of the model *)

\* Executed frame updates allowed in Spec.
MaxFrames == 2

\* Executed frame updates allowed in SpecIdle.
IdleFrames == 150

\* Number of particles of the model (the page uses PARTICLE_COUNT = 20000).
ParticleCount == 2

\* Modules whose init throws in one run of initializeModules.
MaxThrowing == 1

\* Characters typed into the email input.
MaxEmailLen == 5

\* Notification elements in the document at one time.
MaxNotifications == 1

\* Notification elements in the document at one time, where the
\* notifications are looked at by themselves.
MaxToasts == 2

\* Questions of the FAQ accordion.
FaqCount == 2

\* Toggles of the accordion whose tweens run at one time.
MaxToggles == 2

\* Moons of the tools section.
MoonCount == 4

-----------------------------------------------------------------------------
(* Program constants (init, lines 1026-1040; animate, lines 1077-1110) *)

NOISE_FREQUENCY == 300
NOISE_AMPLITUDE == 450
NOISE_SPEED == 30
GLOBE_RADIUS == 5000
MOUSE_INFLUENCE_RADIUS == 2000
MOUSE_REPEL_STRENGTH == 8000
CLICK_INFLUENCE_RADIUS == 3000
CLICK_STRENGTH == 15000000
CLICK_DECAY == 95
CLICK_EPSILON == 10000
LERP_ALPHA == 80
CAMERA_Z == 9000
baseColor == <<80, 138, 168>>
hotColor == <<222, 107, 72>>
InitialMouse == <<-100000, -100000>>

-----------------------------------------------------------------------------
(* Fixed-point arithmetic *)

Abs(a) == IF a < 0 THEN -a ELSE a

\* a / b rounded to the nearest integer, b > 0.
RoundDiv(a, b) ==
    IF a >= 0 THEN (a + b \div 2) \div b ELSE -((-a + b \div 2) \div b)

RECURSIVE SqrtIter(_, _)
SqrtIter(n, x) ==
    LET y == (x + n \div x) \div 2
    IN  IF y >= x THEN x ELSE SqrtIter(n, y)

\* Math.sqrt: the integer square root (rounded down).
ISqrt(n) == IF n < 2 THEN n ELSE SqrtIter(n, n)

Zero3 == <<0, 0, 0>>

VAdd(a, b) == <<a[1] + b[1], a[2] + b[2], a[3] + b[3]>>

VSub(a, b) == <<a[1] - b[1], a[2] - b[2], a[3] - b[3]>>

\* Vector3.multiplyScalar, s in thousandths.
MultiplyScalar(v, s) ==
    <<RoundDiv(v[1] * s, 1000), RoundDiv(v[2] * s, 1000), RoundDiv(v[3] * s, 1000)>>

\* Vector3.length.
Length(v) == ISqrt(v[1] * v[1] + v[2] * v[2] + v[3] * v[3])

\* Vector3.normalize: divideScalar(length || 1); the zero vector stays zero.
Normalize(v) ==
    LET len == Length(v)
    IN  IF len = 0 THEN Zero3
        ELSE <<RoundDiv(v[1] * 1000, len), RoundDiv(v[2] * 1000, len),
               RoundDiv(v[3] * 1000, len)>>

\* Vector3.distanceTo.
DistanceTo(a, b) == Length(VSub(a, b))

\* An interpolation that goes past its end point w by as much as alpha.
Lerp_Overshoot(v, w, alpha) ==
    <<w[1] + RoundDiv((w[1] - v[1]) * alpha, 1000),
      w[2] + RoundDiv((w[2] - v[2]) * alpha, 1000),
      w[3] + RoundDiv((w[3] - v[3]) * alpha, 1000)>>

\* Vector3.lerp / Color.lerp: v + (w - v) * alpha, alpha in thousandths.
Lerp(v, w, alpha) ==
    <<v[1] + RoundDiv((w[1] - v[1]) * alpha, 1000),
      v[2] + RoundDiv((w[2] - v[2]) * alpha, 1000),
      v[3] + RoundDiv((w[3] - v[3]) * alpha, 1000)>>

\* Math.cos(2 * Math.PI * u) and Math.sin(2 * Math.PI * u) for u a multiple of
\* a quarter (u in thousandths), the only angles the model draws.
Cos2Pi(u) == CASE u % 1000 = 0 -> 1000 [] u % 1000 = 500 -> -1000 [] OTHER -> 0

Sin2Pi(u) == CASE u % 1000 = 250 -> 1000 [] u % 1000 = 750 -> -1000 [] OTHER -> 0

-----------------------------------------------------------------------------
(* External capabilities *)

\* The seeds new SimplexNoise() may draw (line 1024).
NoiseSeeds == {0}

\* this.noise.noise3D(x, y, z) (line 1084).  SimplexNoise is an external
\* library: what the program relies on is a function of the seed and of the
\* point alone, continuous, with values in [-1, 1].  The model uses a
\* triangle wave of period 4 with that contract.
noise3D(seed, x, y, z) ==
    Abs(((x + 2 * y + 3 * z + 500 * seed) % 4000) - 2000) - 1000

\* this.clock.getElapsedTime() (line 1071), in milliseconds: the clock starts
\* at its first read and the display runs the frame callback every 16 ms.
getElapsedTime(reads) == reads * 16

\* tan(fov / 2) for the 75 degree field of view of the camera (line 1032).
TanHalfFov == 767

\* A point turned about the y axis by k quarter turns: the camera orbits the
\* origin at distance CAMERA_Z, looking at it, and at azimuth k it stands at
\* RotateY(<<0, 0, CAMERA_Z>>, k).
RotateY(p, k) ==
    LET c == Cos2Pi(250 * k)
        s == Sin2Pi(250 * k)
    IN  <<RoundDiv(p[1] * c + p[3] * s, 1000), p[2],
          RoundDiv(p[3] * c - p[1] * s, 1000)>>

\* this.raycaster.setFromCamera(m, this.camera) followed by
\* this.raycaster.intersectObject(this.intersectionSphere) (lines 1072-1073
\* and 1221-1222): the points where the ray through the normalized device
\* coordinates m meets the sphere of radius GLOBE_RADIUS about the origin,
\* nearest first; the empty sequence when the ray misses.  aspect is the
\* aspect of the projection matrix, azimuth the camera's orbit position.
\* An aspect with denominator 0 is not a number in the program: the ray has
\* no direction and meets nothing.
\* In the camera's frame the ray starts at (0, 0, c) with direction
\* (dx, dy, -100): s = (c*100 - sqrt(c^2*100^2 - D*(c^2 - R^2))) / D.
Raycast(m, aspect, azimuth) ==
    LET dx == IF aspect[2] = 0 THEN 0
              ELSE RoundDiv(m[1] * TanHalfFov * aspect[1], 10000 * aspect[2])
        dy == RoundDiv(m[2] * TanHalfFov, 10000)
        c  == CAMERA_Z \div 100
        r  == GLOBE_RADIUS \div 100
        lim == (r * r * 10000) \div (c * c - r * r)
        D  == dx * dx + dy * dy + 10000
        q  == ISqrt(c * c * 10000 - D * (c * c - r * r))
        At(s) == <<RoundDiv(dx * s * 100, D), RoundDiv(dy * s * 100, D),
                   CAMERA_Z - RoundDiv(100 * s * 100, D)>>
    IN  IF aspect[2] = 0 \/ Abs(dx) > 100 \/ Abs(dy) > 100 \/ dx * dx + dy * dy > lim
        THEN << >>
        ELSE <<RotateY(At(c * 100 - q), azimuth), RotateY(At(c * 100 + q), azimuth)>>

-----------------------------------------------------------------------------
(* setupGlobe (lines 1138-1155) *)

\* The pairs <<u, v>> of values Math.random() returns for one particle in the
\* model (line 1141).
RandomDraws == {<<500, 500>>, <<500, 750>>}

\* Lines 1141-1148: the point for the draws u and v.  phi = acos(2v - 1), so
\* cos(phi) = 2v - 1 and sin(phi) = sqrt(1 - cos(phi)^2).
SpherePoint(u, v) ==
    LET cosPhi == 2 * v - 1000
        sinPhi == ISqrt(1000000 - cosPhi * cosPhi)
        rs == RoundDiv(GLOBE_RADIUS * sinPhi, 1000)
    IN  <<RoundDiv(rs * Cos2Pi(u), 1000), RoundDiv(rs * Sin2Pi(u), 1000),
          RoundDiv(GLOBE_RADIUS * cosPhi, 1000)>>

\* Particle i reading the draws i and i + 1, which it shares with its
\* neighbours.
SetupPositions_SlidingDraws(rnd) ==
    [i \in 1..ParticleCount |-> SpherePoint(rnd[i], rnd[i + 1])]

\* The positions array for a sequence of draws u1, v1, u2, v2, ...
SetupPositions(rnd) ==
    [i \in 1..ParticleCount |-> SpherePoint(rnd[2 * i - 1], rnd[2 * i])]

\* The sequences of 2 * ParticleCount draws of the model.
DrawSequences ==
    {rnd \in [1..(2 * ParticleCount) -> {d[1] : d \in RandomDraws} \cup {d[2] : d \in RandomDraws}] :
        \A i \in 1..ParticleCount : <<rnd[2 * i - 1], rnd[2 * i]>> \in RandomDraws}

-----------------------------------------------------------------------------
(* The frame update: the body of the particle loop of animate *)

\* Line 1084: the noise value of a particle at the elapsed time (in ms).
NoiseValue(seed, originalPos, elapsedTime) ==
    noise3D(seed,
            RoundDiv(originalPos[1] * NOISE_FREQUENCY, 1000),
            RoundDiv(originalPos[2] * NOISE_FREQUENCY, 1000),
            RoundDiv(originalPos[3] * NOISE_FREQUENCY, 1000)
                + RoundDiv(elapsedTime * NOISE_SPEED, 1000))

\* Lines 1083-1086 and 1091: the shimmering position.  The particles object
\* is never moved, so its matrixWorld is the identity and the world position
\* is the local one.
ShimmeringPos(originalPos, noiseValue) ==
    VAdd(originalPos,
         MultiplyScalar(Normalize(originalPos), RoundDiv(noiseValue * NOISE_AMPLITUDE, 1000)))

\* Lines 1087-1089: the colour for a noise value.
CurrentColor(noiseValue) ==
    Lerp(baseColor, hotColor, RoundDiv((noiseValue + 1000) * 500, 1000))

\* The hover condition without the test of the distance.
HoverApplies_AnyDistance(worldPos, mouse3D, touch) == ~touch

\* The hover condition without the test of the device.
HoverApplies_AnyDevice(worldPos, mouse3D, touch) ==
    DistanceTo(worldPos, mouse3D) < MOUSE_INFLUENCE_RADIUS

\* Line 1094: the condition of the hover repulsion.
HoverApplies(worldPos, mouse3D, touch) ==
    DistanceTo(worldPos, mouse3D) < MOUSE_INFLUENCE_RADIUS /\ ~touch

\* Lines 1093-1098: the hover term added to totalDisplacement.
HoverDisplacement(worldPos, mouse3D, touch) ==
    LET hoverDistance == DistanceTo(worldPos, mouse3D)
        hoverRepelStrength ==
            RoundDiv((MOUSE_INFLUENCE_RADIUS - hoverDistance) * MOUSE_REPEL_STRENGTH,
                     MOUSE_INFLUENCE_RADIUS)
    IN  IF HoverApplies(worldPos, mouse3D, touch)
        THEN MultiplyScalar(Normalize(VSub(worldPos, mouse3D)), hoverRepelStrength)
        ELSE Zero3

\* Lines 1099 and 1102: the condition of the click impulse.
ClickApplies(worldPos, point, strength) ==
    strength > 0 /\ DistanceTo(worldPos, point) < CLICK_INFLUENCE_RADIUS

\* Lines 1099-1107: the click term added to totalDisplacement.
ClickDisplacement(worldPos, point, strength) ==
    LET clickDistance == DistanceTo(worldPos, point)
        clickPushStrength ==
            RoundDiv((CLICK_INFLUENCE_RADIUS - clickDistance) * RoundDiv(strength, 1000),
                     CLICK_INFLUENCE_RADIUS)
    IN  IF ClickApplies(worldPos, point, strength)
        THEN MultiplyScalar(Normalize(VSub(worldPos, point)), clickPushStrength)
        ELSE Zero3

\* Lines 1092-1109: the target position.
TargetPos(worldPos, mouse3D, touch, point, strength) ==
    VAdd(worldPos, VAdd(HoverDisplacement(worldPos, mouse3D, touch),
                        ClickDisplacement(worldPos, point, strength)))

\* The decay without the clamp of line 1078.
DecayStrength_NoClamp(strength) ==
    IF strength > 0 THEN RoundDiv(strength * CLICK_DECAY, 100) ELSE strength

\* Lines 1077-1078: the decay of clickStrength and its clamp to zero.
DecayStrength(strength) ==
    LET decayed == IF strength > 0 THEN RoundDiv(strength * CLICK_DECAY, 100)
                   ELSE strength
    IN  IF decayed < CLICK_EPSILON THEN 0 ELSE decayed

\* A fallback point on the surface of the sphere instead of the origin.
Mouse3D_OnSurface(intersects) ==
    IF Len(intersects) > 0 THEN intersects[1] ELSE <<-GLOBE_RADIUS, 0, 0>>

\* Line 1074: intersects.length > 0 ? intersects[0].point : new THREE.Vector3().
Mouse3D(intersects) == IF Len(intersects) > 0 THEN intersects[1] ELSE Zero3

-----------------------------------------------------------------------------
(* The environment *)

\* The sizes <<clientWidth, clientHeight>> the layout gives the container:
\* not laid out, one side collapsed, and laid out (with aspect 1/2).
ContainerSizes == {<<0, 0>>, <<2, 0>>, <<0, 2>>, <<2, 4>>}

\* The size of the canvas a new THREE.WebGLRenderer creates (line 1034).
DefaultCanvasSize == <<300, 150>>

\* Pointer positions relative to the container's bounding rectangle: its
\* centre, the middle of its right edge and the middle of its top edge.
PointerSamples(rect) ==
    {<<rect[1] \div 2, rect[2] \div 2>>, <<rect[1], rect[2] \div 2>>, <<rect[1] \div 2, 0>>}

\* A pointer or touch event needs a target with an area.
HasArea(rect) == rect[1] > 0 /\ rect[2] > 0

-----------------------------------------------------------------------------
(* State after init has run setupGlobe and setupEventListeners (line 1044) *)

NoFrame ==
    [executed |-> FALSE, mouse3D |-> Zero3, point |-> Zero3, strength |-> 0,
     shimmer |-> [i \in 1..ParticleCount |-> Zero3],
     target  |-> [i \in 1..ParticleCount |-> Zero3],
     hover   |-> [i \in 1..ParticleCount |-> FALSE],
     click   |-> [i \in 1..ParticleCount |-> FALSE]]

GlobeInit ==
    /\ isInView = TRUE
    /\ isTouchDevice \in BOOLEAN
    /\ isRendered = FALSE
    /\ clickPoint = Zero3
    /\ clickStrength = 0
    /\ noiseSeed \in NoiseSeeds
    /\ clockReads = 0
    /\ mouse = InitialMouse
    /\ \E rnd \in DrawSequences :
          /\ originalPositions = SetupPositions(rnd)
          /\ animatedPositions = SetupPositions(rnd)
    /\ colors = [i \in 1..ParticleCount |-> baseColor]
    /\ bufferVersion = <<0, 0>>
    /\ cameraAspect = <<1, 1>>
    /\ projectionMatrix = <<1, 1>>
    /\ rendererSize = DefaultCanvasSize
    /\ cameraAzimuth = 0
    /\ containerSize \in ContainerSizes
    /\ pendingFrames = 0
    /\ renderCalls = 0
    /\ initDone = FALSE
    /\ lastOp = "setup"
    /\ frame = NoFrame
    /\ framesSinceHit = -1
    /\ framesSinceInput = -1

\* One state of the globe, kept while the rest of the page is examined.
GlobeParked ==
    /\ GlobeInit
    /\ ~isTouchDevice
    /\ containerSize = <<0, 0>>
    /\ originalPositions = SetupPositions(CHOOSE rnd \in DrawSequences : TRUE)

-----------------------------------------------------------------------------
(* The page when the script has been evaluated and no handler has run *)

\* The elements Navigation.init looks up (lines 294-297).
NavigationElements ==
    {".hamburger", "#mobile-nav-overlay", "#close-nav-btn", ".mobile-nav-tab"}

\* The elements of the newsletter form (lines 365, 387-388).
FormElements == {".newsletter-form", "input[type=email]", "#newsletter-error"}

\* The elements the modelled modules look up; line 2258 looks up the navbar.
Elements == NavigationElements \cup FormElements \cup {".navbar"}

\* this.modules (lines 1382-1398); every one of them defines init.
Modules ==
    <<"LoadingScreen", "Navigation", "FormHandling", "FAQ", "Performance",
      "Accessibility", "ErrorHandling", "SectionAnimations", "ToolsAnimation",
      "CustomCursor", "HeaderAnimations", "TextAnimations", "LenisSmoothScrolling",
      "ScrollCTA", "ParticleGlobe">>

\* The error element as the handlers leave it when there is no error
\* (lines 393-394).
NoError == [textContent |-> "", className |-> "sr-only", role |-> ""]

\* The elements LoadingScreen looks up (lines 12-13, 106).
LoadingElements == {"#loader", "#main-content", ".hero-bg-video"}

\* The fields of the page, whatever the document holds.
PageFields ==
    /\ lenisLoaded \in BOOLEAN
    /\ initLog = << >>
    /\ errorLog = << >>
    /\ cleanupListeners = 0
    /\ navListeners = {}
    /\ hamburgerActive = FALSE
    /\ overlayActive = FALSE
    /\ bodyOverflow = ""
    /\ lenis = "none"
    /\ submitListener = FALSE
    /\ emailValue = << >>
    /\ errorElement = NoError
    /\ ariaInvalid = "unset"
    /\ notifications = << >>
    /\ navbarHidden \in BOOLEAN
    /\ ariaHidden = "unset"
    /\ isInitialized = FALSE
    /\ scrollTriggerDefined \in BOOLEAN
    /\ waitTimer = FALSE
    /\ lastUpdate = << >>
    /\ loadHandled = FALSE
    /\ pageOp = "load"
    /\ loadingPhase = "idle"
    /\ videoReadyState = 0
    /\ metadataListener = FALSE
    /\ scrollSystemInits = 0
    /\ lenisCreated = 0
    /\ orphanLenis = << >>
    /\ scrollerProxies = 0
    /\ rafLoops = 0
    /\ faqExpanded = [q \in 1..FaqCount |-> FALSE]
    /\ faqAriaHidden = [q \in 1..FaqCount |-> TRUE]
    /\ faqDisplay = [q \in 1..FaqCount |-> "none"]
    /\ faqTweens = << >>
    /\ faqToggled = 0
    /\ toolsTouch \in BOOLEAN
    /\ activeMoon = 0
    /\ moonActivated = [m \in 1..MoonCount |-> FALSE]
    /\ moonPlayState = [m \in 1..MoonCount |-> "running"]
    /\ toolsIntersecting = "unobserved"
    /\ eventMoon = 0

\* The page without a loading screen or hero video, on a pointer device.
PageInit ==
    /\ dom \in SUBSET Elements
    /\ PageFields
    /\ ~toolsTouch

\* One state of the page, kept while the globe is examined: every element
\* exists, the libraries are loaded and the navbar is shown.
PageParked ==
    /\ PageInit
    /\ dom = Elements
    /\ lenisLoaded
    /\ scrollTriggerDefined
    /\ ~navbarHidden

Init == GlobeInit /\ PageParked

-----------------------------------------------------------------------------
(* onWindowResize (lines 1200-1208) *)

\* The test of line 1204 on the width alone.
ResizeApplies_WidthOnly(size) == ~(size[1] = 0)

\* Line 1204: the sizes the handler applies.
ResizeApplies(size) == ~(size[1] = 0 \/ size[2] = 0)

OnWindowResize ==
    IF ResizeApplies(containerSize)
    THEN /\ cameraAspect' = containerSize
         /\ projectionMatrix' = containerSize
         /\ rendererSize' = containerSize
    ELSE UNCHANGED <<cameraAspect, projectionMatrix, rendererSize>>

-----------------------------------------------------------------------------
(* animate (lines 1059-1117) *)

\* The next frame requested after the visibility test instead of before it.
PendingAfter_Gated(pending, fromRaf, inView) ==
    (IF fromRaf THEN pending - 1 ELSE pending) + (IF inView THEN 1 ELSE 0)

\* Line 1060: the callbacks pending once the frame has scheduled the next
\* one.  A callback run by the browser has left the queue; the call init
\* makes (line 1045) was never in it.
PendingAfter(pending, fromRaf, inView) ==
    (IF fromRaf THEN pending - 1 ELSE pending) + 1

\* A frame callback without the visibility test.
FrameSkipped_Never(inView) == FALSE

\* Line 1062: the frames that return before doing any work.
FrameSkipped(inView) == ~inView

\* Line 1067: the condition of the one-time initial sizing.
InitialSizingDue(rendered, size) == ~rendered /\ size[1] > 0

\* Lines 1067-1070.
InitialSizing ==
    IF InitialSizingDue(isRendered, containerSize)
    THEN OnWindowResize /\ isRendered' = TRUE
    ELSE UNCHANGED <<cameraAspect, projectionMatrix, rendererSize, isRendered>>

\* originalPositions sharing the array of the position attribute.
PositionWrites_Shared(original, animated, updated) ==
    [originalPositions |-> updated, animatedPositions |-> updated]

\* Lines 1111 and 1151-1152: setXYZ writes the position attribute, whose
\* array is animatedPositions; originalPositions is a copy of its own.
PositionWrites(original, animated, updated) ==
    [originalPositions |-> original, animatedPositions |-> updated]

\* Lines 1079-1112 for all particles, given this frame's elapsed time,
\* pointer point and (decayed) strength.
UpdateParticles(elapsedTime, mouse3D, strength) ==
    LET noiseOf(i) == NoiseValue(noiseSeed, originalPositions[i], elapsedTime)
        world(i) == ShimmeringPos(originalPositions[i], noiseOf(i))
        target(i) == TargetPos(world(i), mouse3D, isTouchDevice, clickPoint, strength)
        updated == [i \in 1..ParticleCount |->
                       Lerp(animatedPositions[i], target(i), LERP_ALPHA)]
        written == PositionWrites(originalPositions, animatedPositions, updated)
    IN  /\ colors' = [i \in 1..ParticleCount |-> CurrentColor(noiseOf(i))]
        /\ originalPositions' = written.originalPositions
        /\ animatedPositions' = written.animatedPositions
        /\ frame' = [executed |-> TRUE, mouse3D |-> mouse3D, point |-> clickPoint,
                     strength |-> strength,
                     shimmer |-> [i \in 1..ParticleCount |-> world(i)],
                     target  |-> [i \in 1..ParticleCount |-> target(i)],
                     hover   |-> [i \in 1..ParticleCount |->
                                     HoverApplies(world(i), mouse3D, isTouchDevice)],
                     click   |-> [i \in 1..ParticleCount |->
                                     ClickApplies(world(i), clickPoint, strength)]]

\* Lines 1113-1116: the buffers are flagged, the orbit control turns the
\* camera (autoRotate rotates left: the azimuth decreases, here by a quarter
\* turn) and the scene is rendered.
Render ==
    /\ bufferVersion' = <<bufferVersion[1] + 1, bufferVersion[2] + 1>>
    /\ cameraAzimuth' = (cameraAzimuth + 3) % 4
    /\ renderCalls' = renderCalls + 1

\* A frame whose particle loop reads the strength the decay has not yet
\* touched.
ExecuteFrame_DecayLast ==
    /\ InitialSizing
    /\ clockReads' = clockReads + 1
    /\ clickStrength' = DecayStrength(clickStrength)
    /\ UpdateParticles(getElapsedTime(clockReads),
                       Mouse3D(Raycast(mouse, projectionMatrix', cameraAzimuth)),
                       clickStrength)
    /\ Render
    /\ framesSinceHit' = IF framesSinceHit >= 0 THEN framesSinceHit + 1 ELSE framesSinceHit
    /\ framesSinceInput' =
          IF framesSinceInput >= 0 THEN framesSinceInput + 1 ELSE framesSinceInput
    /\ UNCHANGED <<isInView, isTouchDevice, clickPoint, noiseSeed, mouse, containerSize>>

\* Lines 1067-1116: a frame that does its work.  The decay of lines
\* 1077-1078 comes before the particle loop of lines 1079-1112, which reads
\* the decayed strength.
ExecuteFrame ==
    /\ InitialSizing
    /\ clockReads' = clockReads + 1
    /\ clickStrength' = DecayStrength(clickStrength)
    /\ UpdateParticles(getElapsedTime(clockReads),
                       Mouse3D(Raycast(mouse, projectionMatrix', cameraAzimuth)),
                       clickStrength')
    /\ Render
    /\ framesSinceHit' = IF framesSinceHit >= 0 THEN framesSinceHit + 1 ELSE framesSinceHit
    /\ framesSinceInput' =
          IF framesSinceInput >= 0 THEN framesSinceInput + 1 ELSE framesSinceInput
    /\ UNCHANGED <<isInView, isTouchDevice, clickPoint, noiseSeed, mouse, containerSize>>

\* Lines 1062-1064: a frame that returns at once.
SkipFrame ==
    UNCHANGED <<isInView, isTouchDevice, isRendered, clickPoint, clickStrength,
                noiseSeed, clockReads, mouse, originalPositions, animatedPositions,
                colors, bufferVersion, cameraAspect, projectionMatrix, rendererSize,
                cameraAzimuth, containerSize, renderCalls, frame, framesSinceHit,
                framesSinceInput>>

\* animate, called by init (fromRaf false) or run as a frame callback.
Animate(fromRaf) ==
    /\ pendingFrames' = PendingAfter(pendingFrames, fromRaf, isInView)
    /\ lastOp' = "animate"
    /\ UNCHANGED pageVars
    /\ IF FrameSkipped(isInView) THEN SkipFrame ELSE ExecuteFrame

\* Lines 1045-1046: init calls animate and sets up the intersection observer.
InitAnimate ==
    /\ ~initDone
    /\ initDone' = TRUE
    /\ Animate(FALSE)

\* The browser runs a pending frame callback.  limit bounds the executed
\* frame updates of a run.
AnimateFrame(limit) ==
    /\ initDone
    /\ pendingFrames > 0
    /\ FrameSkipped(isInView) \/ renderCalls < limit
    /\ UNCHANGED initDone
    /\ Animate(TRUE)

-----------------------------------------------------------------------------
(* Event handlers *)

\* Lines 1210-1212 and 1218-1220: the normalized device coordinates of a
\* pointer position p relative to the bounding rectangle rect.
PointerToNDC(p, rect) ==
    <<RoundDiv(p[1] * 1000, rect[1]) * 2 - 1000,
      -(RoundDiv(p[2] * 1000, rect[2]) * 2) + 1000>>

\* Lines 1223-1224: clickPoint after triggerDisperse.
PointAfterDisperse(intersects, point) ==
    IF Len(intersects) > 0 THEN intersects[1] ELSE point

\* The strength reset whether or not the ray hits.
StrengthAfterDisperse_Always(intersects, strength) == CLICK_STRENGTH

\* Lines 1223 and 1225: clickStrength after triggerDisperse.
StrengthAfterDisperse(intersects, strength) ==
    IF Len(intersects) > 0 THEN CLICK_STRENGTH ELSE strength

\* triggerDisperse (lines 1217-1227) for the pointer position p.
TriggerDisperse(p) ==
    LET ndc == PointerToNDC(p, containerSize)
        intersects == Raycast(ndc, projectionMatrix, cameraAzimuth)
    IN  /\ lastOp' = "triggerDisperse"
        /\ UNCHANGED pageVars
        /\ mouse' = ndc
        /\ clickPoint' = PointAfterDisperse(intersects, clickPoint)
        /\ clickStrength' = StrengthAfterDisperse(intersects, clickStrength)
        /\ framesSinceHit' = IF Len(intersects) > 0 THEN 0 ELSE framesSinceHit
        /\ framesSinceInput' = 0
        /\ UNCHANGED <<isInView, isTouchDevice, isRendered, noiseSeed, clockReads,
                       originalPositions, animatedPositions, colors, bufferVersion,
                       cameraAspect, projectionMatrix, rendererSize, cameraAzimuth,
                       containerSize, pendingFrames, renderCalls, initDone, frame>>

\* A pointer move that puts the particles back on their original positions.
MouseMove_ResetsParticles(p) ==
    /\ initDone /\ ~isTouchDevice /\ HasArea(containerSize)
    /\ mouse' = PointerToNDC(p, containerSize)
    /\ animatedPositions' = originalPositions
    /\ framesSinceInput' = 0
    /\ lastOp' = "mousemove"
    /\ UNCHANGED pageVars
    /\ UNCHANGED <<isInView, isTouchDevice, isRendered, clickPoint, clickStrength,
                   noiseSeed, clockReads, originalPositions, colors,
                   bufferVersion, cameraAspect, projectionMatrix, rendererSize,
                   cameraAzimuth, containerSize, pendingFrames, renderCalls, initDone,
                   frame, framesSinceHit>>

\* onMouseMove (lines 1209-1213), registered on pointer devices (line 1188).
MouseMove(p) ==
    /\ initDone /\ ~isTouchDevice /\ HasArea(containerSize)
    /\ mouse' = PointerToNDC(p, containerSize)
    /\ framesSinceInput' = 0
    /\ lastOp' = "mousemove"
    /\ UNCHANGED pageVars
    /\ UNCHANGED <<isInView, isTouchDevice, isRendered, clickPoint, clickStrength,
                   noiseSeed, clockReads, originalPositions, animatedPositions, colors,
                   bufferVersion, cameraAspect, projectionMatrix, rendererSize,
                   cameraAzimuth, containerSize, pendingFrames, renderCalls, initDone,
                   frame, framesSinceHit>>

\* onMouseClick (lines 1214-1216), registered on pointer devices (line 1189).
MouseClick(p) ==
    /\ initDone /\ ~isTouchDevice /\ HasArea(containerSize)
    /\ TriggerDisperse(p)

\* onTouchStart (lines 1192-1199), registered on touch devices (line 1184);
\* touches is the list of touch positions of the event.
TouchStart(touches) ==
    /\ initDone /\ isTouchDevice /\ HasArea(containerSize)
    /\ IF Len(touches) > 0
       THEN TriggerDisperse(touches[1])
       ELSE /\ lastOp' = "touchstart"
            /\ UNCHANGED pageVars
            /\ UNCHANGED <<isInView, isTouchDevice, isRendered, clickPoint,
                           clickStrength, noiseSeed, clockReads, mouse,
                           originalPositions, animatedPositions, colors, bufferVersion,
                           cameraAspect, projectionMatrix, rendererSize, cameraAzimuth,
                           containerSize, pendingFrames, renderCalls, initDone, frame,
                           framesSinceHit, framesSinceInput>>

\* The window's resize event (line 1181).
WindowResize ==
    /\ initDone
    /\ lastOp' = "resize"
    /\ UNCHANGED pageVars
    /\ OnWindowResize
    /\ UNCHANGED <<isInView, isTouchDevice, isRendered, clickPoint, clickStrength,
                   noiseSeed, clockReads, mouse, originalPositions, animatedPositions,
                   colors, bufferVersion, cameraAzimuth, containerSize, pendingFrames,
                   renderCalls, initDone, frame, framesSinceHit, framesSinceInput>>

\* The intersection observer's callback (lines 1050-1054).
IntersectionChange(isIntersecting) ==
    /\ initDone
    /\ isInView' = isIntersecting
    /\ lastOp' = "observer"
    /\ UNCHANGED pageVars
    /\ UNCHANGED <<isTouchDevice, isRendered, clickPoint, clickStrength, noiseSeed,
                   clockReads, mouse, originalPositions, animatedPositions, colors,
                   bufferVersion, cameraAspect, projectionMatrix, rendererSize,
                   cameraAzimuth, containerSize, pendingFrames, renderCalls, initDone,
                   frame, framesSinceHit, framesSinceInput>>

\* The page lays the container out anew (no handler of the module runs).
Layout(size) ==
    /\ initDone
    /\ containerSize' = size
    /\ lastOp' = "layout"
    /\ UNCHANGED pageVars
    /\ UNCHANGED <<isInView, isTouchDevice, isRendered, clickPoint, clickStrength,
                   noiseSeed, clockReads, mouse, originalPositions, animatedPositions,
                   colors, bufferVersion, cameraAspect, projectionMatrix, rendererSize,
                   cameraAzimuth, pendingFrames, renderCalls, initDone, frame,
                   framesSinceHit, framesSinceInput>>

-----------------------------------------------------------------------------
(* Navigation, the overlay menu (lines 292-352) *)

\* setupEventListeners (lines 315-333) on a document with these elements:
\* the listeners it registers and whether it throws.  this.closeBtn is
\* null when the close button is missing, and line 320 then throws a
\* TypeError after line 317 has registered the hamburger's listener.
SetupEventListeners(elements) ==
    IF "#close-nav-btn" \notin elements
    THEN [listeners |-> {"hamburger.click"}, threw |-> TRUE]
    ELSE [listeners |-> {"hamburger.click", "closeBtn.click", "document.keydown"}
                          \cup (IF ".mobile-nav-tab" \in elements
                                THEN {"navTab.click"} ELSE {}),
          threw |-> FALSE]

\* Navigation.init (lines 293-306): line 299 returns early when the
\* hamburger or the overlay is missing.
NavigationInit(elements) ==
    IF ".hamburger" \notin elements \/ "#mobile-nav-overlay" \notin elements
    THEN [listeners |-> {}, threw |-> FALSE]
    ELSE SetupEventListeners(elements)

\* openMenu (lines 335-342).
OpenMenu ==
    /\ lenis' = IF lenis # "none" THEN "stopped" ELSE lenis
    /\ bodyOverflow' = "hidden"
    /\ hamburgerActive' = TRUE
    /\ overlayActive' = TRUE
    /\ UNCHANGED navListeners

\* closeMenu (lines 344-351).
CloseMenu ==
    /\ lenis' = IF lenis # "none" THEN "running" ELSE lenis
    /\ bodyOverflow' = ""
    /\ hamburgerActive' = FALSE
    /\ overlayActive' = FALSE
    /\ UNCHANGED navListeners

\* What every event of the navigation leaves alone.
NavigationOnly ==
    UNCHANGED <<globeVars, dom, lenisLoaded, appVars, formVars, navbarVars, widgetVars>>

\* A click on the hamburger (listener of line 317).
HamburgerClick ==
    /\ "hamburger.click" \in navListeners
    /\ pageOp' = "hamburger.click"
    /\ OpenMenu
    /\ NavigationOnly

\* A click on the close button (listener of line 320).
CloseBtnClick ==
    /\ "closeBtn.click" \in navListeners
    /\ pageOp' = "closeBtn.click"
    /\ CloseMenu
    /\ NavigationOnly

\* A click on a link of the menu (listener of lines 323-325).
NavTabClick ==
    /\ "navTab.click" \in navListeners
    /\ pageOp' = "navTab.click"
    /\ CloseMenu
    /\ NavigationOnly

Keys == {"Escape", "Enter"}

\* The user presses a key.  The listener of lines 328-332 runs when
\* setupEventListeners got as far as registering it.
KeyDown(key) ==
    /\ initLog # << >>
    /\ pageOp' = IF key = "Escape" THEN "keydown.Escape" ELSE "keydown"
    /\ IF "document.keydown" \in navListeners /\ key = "Escape" /\ overlayActive
       THEN CloseMenu
       ELSE UNCHANGED navVars
    /\ NavigationOnly

-----------------------------------------------------------------------------
(* LenisSmoothScrolling (lines 196-286) *)

\* The instances no longer referred to once this.lenis is assigned anew.
Orphaned == IF lenis # "none" THEN Append(orphanLenis, lenis) ELSE orphanLenis

\* LenisSmoothScrolling.init (lines 199-206) after the DOM is ready, that
\* is setupLenis (lines 208-285).  Line 223 constructs an instance on every
\* call; when ScrollTrigger is missing line 240 throws and line 273 drops
\* the reference to the instance just made.
SetupLenis ==
    IF ~lenisLoaded
    THEN UNCHANGED <<lenis, lenisVars>>
    ELSE /\ lenisCreated' = lenisCreated + 1
         /\ IF scrollTriggerDefined
            THEN /\ lenis' = "running"
                 /\ orphanLenis' = Orphaned
                 /\ scrollerProxies' = scrollerProxies + 1
                 /\ rafLoops' = rafLoops + 1
            ELSE /\ lenis' = "none"
                 /\ orphanLenis' = Append(Orphaned, "running")
                 /\ UNCHANGED <<scrollerProxies, rafLoops>>

-----------------------------------------------------------------------------
(* CodlessApp (lines 1379-1439) *)

\* The modules whose init is not modelled; it returns or throws.
OpaqueModules ==
    {Modules[k] : k \in 1..Len(Modules)}
        \ {"Navigation", "FormHandling", "LenisSmoothScrolling"}

\* The sets of modules whose init throws in one run of initializeModules.
ThrowingSets == {S \in SUBSET OpaqueModules : Cardinality(S) <= MaxThrowing}

\* The loop body without its try/catch: the exception leaves forEach.
TryInit_Uncaught(run, module, throws) ==
    IF run.aborted THEN run
    ELSE [invoked |-> Append(run.invoked, module), errors |-> run.errors,
          aborted |-> throws]

\* Lines 1412-1418, one turn of the loop: init is invoked, and what it
\* throws is caught and logged.
TryInit(run, module, throws) ==
    [invoked |-> Append(run.invoked, module),
     errors  |-> IF throws THEN Append(run.errors, module) ELSE run.errors,
     aborted |-> FALSE]

\* Line 1411: forEach over the list of modules; threw is the set of modules
\* whose init throws.
RECURSIVE ForEachInit(_, _, _)
ForEachInit(modules, threw, run) ==
    IF modules = << >> THEN run
    ELSE ForEachInit(Tail(modules), threw,
                     TryInit(run, Head(modules), Head(modules) \in threw))

\* initializeModules (lines 1410-1422), called once when the DOM is ready
\* (lines 1401-1408 and 2327-2329), with the inits it makes:
\* LoadingScreen.init (lines 11-23 and 50-55, which starts the loading
\* timer when its elements exist), Navigation.init, FormHandling.init
\* (lines 359-373) and LenisSmoothScrolling.init (lines 199-286, which
\* catches its own errors and leaves lenis null when a library is missing).
InitializeModules(failing) ==
    LET navigation == NavigationInit(dom)
        threw == failing \cup (IF navigation.threw THEN {"Navigation"} ELSE {})
        run == ForEachInit(Modules, threw,
                           [invoked |-> << >>, errors |-> << >>, aborted |-> FALSE])
        ran(module) == \E k \in 1..Len(run.invoked) : run.invoked[k] = module
    IN  /\ initLog = << >>
        /\ initLog' = run.invoked
        /\ errorLog' = run.errors
        /\ cleanupListeners' =
              IF run.aborted THEN cleanupListeners ELSE cleanupListeners + 1
        /\ navListeners' =
              IF ran("Navigation") THEN navigation.listeners ELSE navListeners
        /\ submitListener' =
              IF ran("FormHandling") THEN ".newsletter-form" \in dom
              ELSE submitListener
        /\ IF ran("LenisSmoothScrolling") THEN SetupLenis
           ELSE UNCHANGED <<lenis, lenisVars>>
        /\ loadingPhase' =
              IF /\ ran("LoadingScreen") /\ "LoadingScreen" \notin threw
                 /\ {"#loader", "#main-content"} \subseteq dom
              THEN "loading" ELSE loadingPhase
        /\ pageOp' = "initializeModules"
        /\ UNCHANGED <<globeVars, dom, lenisLoaded, hamburgerActive, overlayActive,
                       bodyOverflow, emailValue, errorElement, ariaInvalid,
                       notifications, navbarVars, videoReadyState, metadataListener,
                       scrollSystemInits, faqVars, toolVars>>

-----------------------------------------------------------------------------
(* FormHandling (lines 358-482) *)

\* The characters of the model: a letter, the at sign, the dot and a blank.
EmailChars == {"a", "@", ".", " "}

\* The class [^\s@] of the pattern of line 439.
NotSpaceOrAt(c) == c # " " /\ c # "@"

\* [^\s@]+ matches the characters from..to of email.
MatchesRun(email, from, to) ==
    from <= to /\ \A k \in from..to : NotSpaceOrAt(email[k])

\* A pattern that asks for no dot after the at sign.
IsValidEmail_NoDot(email) ==
    \E i \in 1..Len(email) :
        /\ email[i] = "@"
        /\ MatchesRun(email, 1, i - 1)
        /\ MatchesRun(email, i + 1, Len(email))

\* isValidEmail (lines 438-441): /^[^\s@]+@[^\s@]+\.[^\s@]+$/ tested on the
\* whole value; i is the place of the at sign and j of the dot the pattern
\* matches literally.
IsValidEmail(email) ==
    \E i, j \in 1..Len(email) :
        /\ email[i] = "@"
        /\ email[j] = "."
        /\ MatchesRun(email, 1, i - 1)
        /\ MatchesRun(email, i + 1, j - 1)
        /\ MatchesRun(email, j + 1, Len(email))

\* The notification elements are told apart by a number no other element
\* of the document has.
FreeToastId ==
    CHOOSE id \in 1..(Len(notifications) + 1) :
        /\ \A k \in 1..Len(notifications) : notifications[k].id # id
        /\ \A other \in 1..(id - 1) :
              \E k \in 1..Len(notifications) : notifications[k].id = other

\* showMessage (lines 443-481): a notification element is appended to the
\* document and its timers are started.  The timer of lines 468-470 only
\* slides the element in.
ShowMessage(message, type) ==
    notifications' = Append(notifications,
                            [type |-> type, message |-> message,
                             id |-> FreeToastId, stage |-> "shown"])

\* Lines 392-395 and 412-415: the error element cleared, when it exists.
ClearedError ==
    IF "#newsletter-error" \in dom
    THEN [errorElement EXCEPT !.textContent = "", !.className = "sr-only"]
    ELSE errorElement

\* showFormError (lines 418-431).
ShowFormError(message) ==
    /\ errorElement' =
          IF "#newsletter-error" \in dom
          THEN [textContent |-> message, className |-> "form-error", role |-> "alert"]
          ELSE errorElement
    /\ ariaInvalid' = IF "input[type=email]" \in dom THEN "true" ELSE ariaInvalid
    /\ ShowMessage(message, "error")

\* What every event of the form leaves alone.
FormOnly ==
    UNCHANGED <<globeVars, dom, lenisLoaded, appVars, navVars, navbarVars,
                widgetVars, submitListener>>

\* The submit event of the newsletter form (lines 369-372) and
\* handleNewsletterSubmission (lines 386-416).  Line 389 reads undefined
\* when the form has no email input, which line 397 treats as it treats
\* the empty string.  form.reset() restores the input's empty default.
SubmitNewsletter ==
    LET email == IF "input[type=email]" \in dom THEN emailValue ELSE << >>
    IN  /\ submitListener
        /\ pageOp' = "submit"
        /\ IF email = << >>
           THEN /\ ShowFormError("Please enter an email address.")
                /\ UNCHANGED emailValue
           ELSE IF ~IsValidEmail(email)
           THEN /\ ShowFormError("Please enter a valid email address.")
                /\ UNCHANGED emailValue
           ELSE /\ ShowMessage("Thank you for subscribing!", "success")
                /\ emailValue' = << >>
                /\ errorElement' = ClearedError
                /\ UNCHANGED ariaInvalid
        /\ FormOnly

\* A click on a contact button (lines 379-382) and handleContactClick
\* (lines 433-436).
ContactClick ==
    /\ initLog # << >>
    /\ pageOp' = "contact.click"
    /\ ShowMessage("Contact form would open here.", "info")
    /\ UNCHANGED <<emailValue, errorElement, ariaInvalid>>
    /\ FormOnly

\* The timer of line 473 of a notification fires after 4 s: the element
\* slides out and the timer of line 475 is started.  The timers run for
\* the same time, so they fire in the order of showMessage.
SlideOut ==
    /\ \E k \in 1..Len(notifications) :
          /\ notifications[k].stage = "shown"
          /\ \A j \in 1..(k - 1) : notifications[j].stage = "leaving"
          /\ notifications' = [notifications EXCEPT ![k].stage = "leaving"]
    /\ pageOp' = "notification.slideOut"
    /\ UNCHANGED <<emailValue, errorElement, ariaInvalid>>
    /\ FormOnly

\* The element is not taken from the document.
WithoutOldest_Kept(list) == list

\* Line 477: removeChild of the oldest notification.
WithoutOldest(list) == Tail(list)

\* The timer of lines 475-479 of the oldest notification fires 300 ms
\* after it slid out: the element, still in the document (line 476), is
\* removed from it.
NotificationRemoved ==
    /\ notifications # << >>
    /\ Head(notifications).stage = "leaving"
    /\ pageOp' = "notification.removed"
    /\ notifications' = WithoutOldest(notifications)
    /\ UNCHANGED <<emailValue, errorElement, ariaInvalid>>
    /\ FormOnly

\* The user types the character c into the email input.
TypeChar(c) ==
    /\ "input[type=email]" \in dom
    /\ Len(emailValue) < MaxEmailLen
    /\ pageOp' = "input"
    /\ emailValue' = Append(emailValue, c)
    /\ UNCHANGED <<errorElement, ariaInvalid, notifications>>
    /\ FormOnly

\* The user empties the email input.
ClearInput ==
    /\ "input[type=email]" \in dom
    /\ emailValue # << >>
    /\ pageOp' = "input"
    /\ emailValue' = << >>
    /\ UNCHANGED <<errorElement, ariaInvalid, notifications>>
    /\ FormOnly

-----------------------------------------------------------------------------
(* NavbarScrollBehavior (lines 2252-2322) *)

\* scrollThreshold (line 2254).
scrollThreshold == 150

\* self.direction of a ScrollTrigger update: forward or backward.
Directions == {1, -1}

\* self.scroll() of a ScrollTrigger update.
ScrollSamples == {0, 1, 149, 150, 151, 152, 300, 1000}

\* The first test of handleScrollUpdate on the direction alone.
ShouldHide_AnyScroll(direction, currentScroll) == direction = 1

\* Line 2300.
ShouldHide(direction, currentScroll) ==
    direction = 1 /\ currentScroll > scrollThreshold

\* Line 2303.
ShouldShow(direction, currentScroll) ==
    direction = -1 \/ currentScroll <= scrollThreshold

\* showNavbar (lines 2309-2314).
ShowNavbar ==
    IF ".navbar" \in dom /\ navbarHidden
    THEN navbarHidden' = FALSE /\ ariaHidden' = "false"
    ELSE UNCHANGED <<navbarHidden, ariaHidden>>

\* hideNavbar (lines 2316-2321).
HideNavbar ==
    IF ".navbar" \in dom /\ ~navbarHidden
    THEN navbarHidden' = TRUE /\ ariaHidden' = "true"
    ELSE UNCHANGED <<navbarHidden, ariaHidden>>

\* waitForScrollTrigger (lines 2271-2277) with setupScrollTriggerBehavior
\* (lines 2279-2291).
WaitForScrollTrigger ==
    IF scrollTriggerDefined
    THEN isInitialized' = TRUE /\ waitTimer' = FALSE
    ELSE waitTimer' = TRUE /\ UNCHANGED isInitialized

\* What every event of the navbar leaves alone.
NavbarOnly ==
    UNCHANGED <<globeVars, dom, lenisLoaded, appVars, navVars, formVars, widgetVars>>

\* The timeout of the window's load listener (lines 2333-2343) calls
\* NavbarScrollBehavior.init (lines 2257-2269).
NavbarInit ==
    /\ initLog # << >>
    /\ ~loadHandled
    /\ loadHandled' = TRUE
    /\ pageOp' = "navbar.init"
    /\ IF ".navbar" \notin dom
       THEN UNCHANGED <<navbarHidden, ariaHidden, isInitialized, waitTimer>>
       ELSE ShowNavbar /\ WaitForScrollTrigger
    /\ UNCHANGED <<scrollTriggerDefined, lastUpdate>>
    /\ NavbarOnly

\* The timeout of line 2275 fires.
WaitTimerFires ==
    /\ waitTimer
    /\ pageOp' = "navbar.wait"
    /\ WaitForScrollTrigger
    /\ UNCHANGED <<navbarHidden, ariaHidden, scrollTriggerDefined, lastUpdate,
                   loadHandled>>
    /\ NavbarOnly

\* The ScrollTrigger script finishes loading.
ScrollTriggerLoaded ==
    /\ ~scrollTriggerDefined
    /\ scrollTriggerDefined' = TRUE
    /\ pageOp' = "scrolltrigger.loaded"
    /\ UNCHANGED <<navbarHidden, ariaHidden, isInitialized, waitTimer, lastUpdate,
                   loadHandled>>
    /\ NavbarOnly

\* onUpdate of the ScrollTrigger of lines 2281-2288, which exists once
\* setupScrollTriggerBehavior has run, and handleScrollUpdate (lines
\* 2293-2307).
ScrollUpdate(direction, currentScroll) ==
    /\ isInitialized
    /\ pageOp' = "scrollUpdate"
    /\ lastUpdate' = <<direction, currentScroll>>
    /\ IF ShouldHide(direction, currentScroll) THEN HideNavbar
       ELSE IF ShouldShow(direction, currentScroll) THEN ShowNavbar
       ELSE UNCHANGED <<navbarHidden, ariaHidden>>
    /\ UNCHANGED <<isInitialized, scrollTriggerDefined, waitTimer, loadHandled>>
    /\ NavbarOnly

-----------------------------------------------------------------------------
(* FAQ (lines 488-604) *)

\* The init of a module was invoked by initializeModules and returned
\* (lines 1412-1418).
Initialized(module) ==
    /\ \E k \in 1..Len(initLog) : initLog[k] = module
    /\ \A k \in 1..Len(errorLog) : errorLog[k] # module

Questions == 1..FaqCount

\* No question is left out of the closing loop.
OthersOf_None(question) == {}

\* Lines 517-521: the questions closed before the current one is toggled.
OthersOf(question) == Questions \ {question}

\* The tweens of lines 568-576 started by the loop of lines 517-521, in the
\* order of the document.
CloseOthers(question) ==
    SelectSeq([q \in Questions |-> <<q, "close">>],
              LAMBDA tween : tween[1] \in OthersOf(question))

\* handleToggleFAQ (lines 512-529) with handleOpenFAQ (lines 531-558) and
\* handleCloseFAQ (lines 560-586): the attributes are written at once,
\* gsap.set of line 539 displays the answer at once, and every call starts
\* a tween of 0.4 s on the answer; only the closing tween has an onComplete.
HandleToggleFAQ(question) ==
    LET isExpanded == faqExpanded[question]
        others == OthersOf(question)
    IN  /\ Initialized("FAQ")
        /\ Len(faqTweens) < MaxToggles * FaqCount
        /\ faqExpanded' = [q \in Questions |->
                             IF q = question THEN ~isExpanded
                             ELSE IF q \in others THEN FALSE ELSE faqExpanded[q]]
        /\ faqAriaHidden' = [q \in Questions |->
                               IF q = question THEN isExpanded
                               ELSE IF q \in others THEN TRUE ELSE faqAriaHidden[q]]
        /\ faqDisplay' = [q \in Questions |->
                            IF q = question /\ ~isExpanded THEN "block"
                            ELSE faqDisplay[q]]
        /\ faqTweens' = faqTweens \o CloseOthers(question)
                           \o << <<question, IF isExpanded THEN "close" ELSE "open">> >>
        /\ faqToggled' = question
        /\ pageOp' = "toggleFAQ"

\* Everything but the accordion.
FaqOnly ==
    UNCHANGED <<globeVars, dom, lenisLoaded, appVars, navVars, formVars, navbarVars,
                loadVars, lenisVars, toolVars>>

\* The click listener of lines 497-500.
FaqClick(question) == HandleToggleFAQ(question) /\ FaqOnly

FaqKeys == {"Enter", " ", "Tab"}

\* The keydown listener of lines 503-508.
FaqKeyDown(question, key) ==
    /\ key \in {"Enter", " "}
    /\ HandleToggleFAQ(question)
    /\ FaqOnly

\* The oldest tween on an answer reaches its end: the tweens last 0.4 s
\* each, so they end in the order they were started; GSAP's default
\* overwrite: false lets a tween run on when a later one is started on the
\* same answer.  The onComplete of lines 573-575 hides the answer.
TweenComplete ==
    /\ faqTweens # << >>
    /\ LET tween == Head(faqTweens)
       IN  faqDisplay' = IF tween[2] = "close"
                         THEN [faqDisplay EXCEPT ![tween[1]] = "none"]
                         ELSE faqDisplay
    /\ faqTweens' = Tail(faqTweens)
    /\ pageOp' = "tweenComplete"
    /\ UNCHANGED <<faqExpanded, faqAriaHidden, faqToggled>>
    /\ FaqOnly

-----------------------------------------------------------------------------
(* LoadingScreen (lines 10-149) *)

\* initScrollSystem (lines 109-117): the flag of line 107 is set by the one
\* run of the body, which calls LenisSmoothScrolling.init again.
InitScrollSystem ==
    IF scrollSystemInits > 0
    THEN UNCHANGED <<scrollSystemInits, lenis, lenisVars>>
    ELSE /\ scrollSystemInits' = scrollSystemInits + 1
         /\ SetupLenis

\* Everything the steps of the loading screen leave alone.
LoadingOnly ==
    UNCHANGED <<globeVars, dom, lenisLoaded, appVars, navListeners, hamburgerActive,
                overlayActive, formVars, navbarVars, faqVars, toolVars>>

\* The timer of startLoadingTimer (lines 50-55) fires after 3 s and
\* hideLoader (lines 57-72) starts the fade of the loader.
LoadingTimerFires ==
    /\ loadingPhase = "loading"
    /\ loadingPhase' = "fading"
    /\ pageOp' = "hideLoader"
    /\ UNCHANGED <<bodyOverflow, lenis, lenisVars, videoReadyState, metadataListener,
                   scrollSystemInits>>
    /\ LoadingOnly

\* The fade ends: the loader is taken from the display and showMainContent
\* (lines 74-100) shows the page and the navbar, hides the body's overflow
\* and starts the entrance animation of 0.8 s.
LoaderHidden ==
    /\ loadingPhase = "fading"
    /\ loadingPhase' = "entering"
    /\ bodyOverflow' = "hidden"
    /\ pageOp' = "showMainContent"
    /\ UNCHANGED <<lenis, lenisVars, videoReadyState, metadataListener,
                   scrollSystemInits>>
    /\ LoadingOnly

\* The onComplete of the entrance animation (lines 101-133).
EntranceComplete ==
    /\ loadingPhase = "entering"
    /\ loadingPhase' = "entered"
    /\ bodyOverflow' = ""
    /\ IF ".hero-bg-video" \in dom /\ videoReadyState < 2
       THEN /\ metadataListener' = TRUE
            /\ UNCHANGED <<scrollSystemInits, lenis, lenisVars>>
       ELSE /\ InitScrollSystem
            /\ UNCHANGED metadataListener
    /\ pageOp' = "entranceComplete"
    /\ UNCHANGED videoReadyState
    /\ LoadingOnly

\* The hero video loads on: its readyState grows, and 'loadedmetadata' is
\* fired when it leaves HAVE_NOTHING; the listener of lines 124-126 is
\* registered with once: true.
VideoLoads(readyState) ==
    /\ ".hero-bg-video" \in dom
    /\ readyState > videoReadyState
    /\ videoReadyState' = readyState
    /\ IF videoReadyState = 0 /\ metadataListener
       THEN /\ InitScrollSystem
            /\ metadataListener' = FALSE
       ELSE UNCHANGED <<scrollSystemInits, lenis, lenisVars, metadataListener>>
    /\ pageOp' = "videoLoads"
    /\ UNCHANGED <<loadingPhase, bodyOverflow>>
    /\ LoadingOnly

\* HTMLMediaElement.readyState: HAVE_NOTHING to HAVE_ENOUGH_DATA.
ReadyStates == 0..4

\* The loader lies over the page until hideLoader's fade has ended
\* (lines 57-72); the navbar is displayed by line 81.
LoaderCovers == loadingPhase \in {"loading", "fading"}

-----------------------------------------------------------------------------
(* ToolsAnimation (lines 852-944), on a page with the tools section and its
   moons *)

Moons == 1..MoonCount

\* activateMoon (lines 866-873) and resetMoon (lines 876-885) on the play
\* states and on the effect: the moons of reset are reset first, then the
\* moons of activate are activated.
ApplyMoons(reset, activate) ==
    /\ moonPlayState' = [m \in Moons |->
                            IF m \in activate THEN "paused"
                            ELSE IF m \in reset THEN "running"
                            ELSE moonPlayState[m]]
    /\ moonActivated' = [m \in Moons |->
                            IF m \in activate THEN TRUE
                            ELSE IF m \in reset THEN FALSE
                            ELSE moonActivated[m]]

\* The tap on a moon resets no other moon.
PreviousMoon_Kept(active, moon) == {}

\* Lines 912-914: the moon reset before the tapped one is looked at.
PreviousMoon(active, moon) ==
    IF active # 0 /\ active # moon THEN {active} ELSE {}

\* Everything but the tools section.
ToolsOnly ==
    UNCHANGED <<globeVars, dom, lenisLoaded, appVars, navVars, formVars, navbarVars,
                loadVars, lenisVars, faqVars, toolsTouch>>

\* The callback of the IntersectionObserver (lines 888-900), called when
\* the section enters or leaves the viewport.
Intersection(isIntersecting) ==
    /\ Initialized("ToolsAnimation")
    /\ toolsIntersecting # (IF isIntersecting THEN "inside" ELSE "outside")
    /\ toolsIntersecting' = IF isIntersecting THEN "inside" ELSE "outside"
    /\ moonPlayState' = [m \in Moons |->
                            IF isIntersecting
                            THEN IF m # activeMoon THEN "running" ELSE moonPlayState[m]
                            ELSE "paused"]
    /\ eventMoon' = 0
    /\ pageOp' = "intersection"
    /\ UNCHANGED <<activeMoon, moonActivated>>
    /\ ToolsOnly

\* A tap on a moon (listener of lines 908-922).
MoonClick(moon) ==
    /\ Initialized("ToolsAnimation")
    /\ toolsTouch
    /\ IF activeMoon = moon
       THEN /\ ApplyMoons(PreviousMoon(activeMoon, moon) \cup {moon}, {})
            /\ activeMoon' = 0
       ELSE /\ ApplyMoons(PreviousMoon(activeMoon, moon), {moon})
            /\ activeMoon' = moon
    /\ eventMoon' = moon
    /\ pageOp' = "moon.click"
    /\ UNCHANGED toolsIntersecting
    /\ ToolsOnly

\* A tap outside the moons (listener of lines 926-931).
DocumentClick ==
    /\ Initialized("ToolsAnimation")
    /\ toolsTouch
    /\ IF activeMoon # 0
       THEN ApplyMoons({activeMoon}, {}) /\ activeMoon' = 0
       ELSE UNCHANGED <<moonPlayState, moonActivated, activeMoon>>
    /\ eventMoon' = 0
    /\ pageOp' = "document.click"
    /\ UNCHANGED toolsIntersecting
    /\ ToolsOnly

\* The pointer enters a moon (listener of line 939); it is over one moon
\* at a time.
MouseEnter(moon) ==
    /\ Initialized("ToolsAnimation")
    /\ ~toolsTouch
    /\ \A m \in Moons : ~moonActivated[m]
    /\ ApplyMoons({}, {moon})
    /\ eventMoon' = moon
    /\ pageOp' = "moon.mouseenter"
    /\ UNCHANGED <<activeMoon, toolsIntersecting>>
    /\ ToolsOnly

\* The pointer leaves the moon it was over (listener of line 940).
MouseLeave(moon) ==
    /\ Initialized("ToolsAnimation")
    /\ ~toolsTouch
    /\ moonActivated[moon]
    /\ ApplyMoons({moon}, {})
    /\ eventMoon' = moon
    /\ pageOp' = "moon.mouseleave"
    /\ UNCHANGED <<activeMoon, toolsIntersecting>>
    /\ ToolsOnly

-----------------------------------------------------------------------------
(* Specifications *)

PointerInput ==
    \/ \E p \in PointerSamples(containerSize) : MouseMove(p)
    \/ \E p \in PointerSamples(containerSize) : MouseClick(p)
    \/ \E p \in PointerSamples(containerSize) : TouchStart(<<p>>)
    \/ TouchStart(<< >>)

Next ==
    \/ InitAnimate
    \/ AnimateFrame(MaxFrames)
    \/ PointerInput
    \/ WindowResize
    \/ \E b \in BOOLEAN : IntersectionChange(b)
    \/ \E size \in ContainerSizes : Layout(size)

Spec == Init /\ [][Next]_vars

\* The run of the idle globe: the container is laid out and keeps its size,
\* pointer events arrive until the second frame update and then stop, and
\* the frame callback keeps running.
IdleInit == Init /\ HasArea(containerSize)

NextIdle ==
    \/ InitAnimate
    \/ AnimateFrame(IdleFrames)
    \/ renderCalls <= 1 /\ PointerInput
    \/ \E b \in BOOLEAN : IntersectionChange(b)

SpecIdle == IdleInit /\ [][NextIdle]_vars

\* The start of the page and its overlay menu: the documents differ in the
\* elements of the navigation and in whether Lenis is loaded.
AppInit ==
    /\ GlobeParked
    /\ PageInit
    /\ FormElements \cup {".navbar"} \subseteq dom
    /\ scrollTriggerDefined
    /\ ~navbarHidden

NextApp ==
    \/ \E failing \in ThrowingSets : InitializeModules(failing)
    \/ HamburgerClick
    \/ CloseBtnClick
    \/ NavTabClick
    \/ \E key \in Keys : KeyDown(key)

SpecApp == AppInit /\ [][NextApp]_vars

\* The newsletter form: the documents differ in the elements of the form.
FormInit ==
    /\ GlobeParked
    /\ PageInit
    /\ NavigationElements \cup {".navbar"} \subseteq dom
    /\ lenisLoaded
    /\ scrollTriggerDefined
    /\ ~navbarHidden

NextForm ==
    \/ InitializeModules({})
    \/ \E c \in EmailChars : TypeChar(c)
    \/ ClearInput
    \/ Len(notifications) < MaxNotifications /\ SubmitNewsletter
    \/ Len(notifications) < MaxNotifications /\ ContactClick
    \/ SlideOut
    \/ NotificationRemoved

SpecForm == FormInit /\ [][NextForm]_vars

\* The notifications of the form: the value of the email input stays
\* empty, so that a submission shows the error toast.
NextToast ==
    \/ InitializeModules({})
    \/ Len(notifications) < MaxToasts /\ SubmitNewsletter
    \/ Len(notifications) < MaxToasts /\ ContactClick
    \/ SlideOut
    \/ NotificationRemoved

\* The timers of showMessage fire.
ToastFairness == WF_vars(SlideOut) /\ WF_vars(NotificationRemoved)

SpecToast == FormInit /\ [][NextToast]_vars /\ ToastFairness

\* The navbar: the documents differ in whether the navbar exists and is
\* hidden by its markup, in whether ScrollTrigger is loaded in time, and in
\* whether the scroll updates come from Lenis or from native scrolling.
NavbarScrollInit ==
    /\ GlobeParked
    /\ PageInit
    /\ NavigationElements \cup FormElements \subseteq dom
    /\ navbarHidden => ".navbar" \in dom

NextNavbar ==
    \/ InitializeModules({})
    \/ NavbarInit
    \/ WaitTimerFires
    \/ ScrollTriggerLoaded
    \/ \E direction \in Directions, currentScroll \in ScrollSamples :
          ScrollUpdate(direction, currentScroll)

SpecNavbar == NavbarScrollInit /\ [][NextNavbar]_vars

\* The accordion of the complete page.
FaqInit == GlobeParked /\ PageParked

NextFaq ==
    \/ InitializeModules({})
    \/ \E question \in Questions : FaqClick(question)
    \/ \E question \in Questions, key \in FaqKeys : FaqKeyDown(question, key)
    \/ TweenComplete

SpecFaq == FaqInit /\ [][NextFaq]_vars

\* The loading screen, Lenis and the overlay menu: the documents differ in
\* whether there is a hero video and in which libraries are loaded.
LoadingInit ==
    /\ GlobeParked
    /\ PageFields
    /\ \E video \in SUBSET {".hero-bg-video"} :
          dom = Elements \cup {"#loader", "#main-content"} \cup video
    /\ ~toolsTouch
    /\ ~navbarHidden

NextLoading ==
    \/ InitializeModules({})
    \/ LoadingTimerFires
    \/ LoaderHidden
    \/ EntranceComplete
    \/ \E readyState \in ReadyStates : VideoLoads(readyState)
    \/ ~LoaderCovers /\ HamburgerClick
    \/ ~LoaderCovers /\ CloseBtnClick

SpecLoading == LoadingInit /\ [][NextLoading]_vars

\* The timers and animations of the loading screen run to their end, and
\* the video goes on loading.
LoadingFairness ==
    /\ WF_vars(LoadingTimerFires)
    /\ WF_vars(LoaderHidden)
    /\ WF_vars(EntranceComplete)
    /\ WF_vars(\E readyState \in ReadyStates : VideoLoads(readyState))

SpecLoadingFair == SpecLoading /\ LoadingFairness

\* The tools section of the complete page, on touch and pointer devices.
ToolsInit ==
    /\ GlobeParked
    /\ PageFields
    /\ dom = Elements
    /\ lenisLoaded
    /\ scrollTriggerDefined
    /\ ~navbarHidden

NextTools ==
    \/ InitializeModules({})
    \/ \E isIntersecting \in BOOLEAN : Intersection(isIntersecting)
    \/ \E moon \in Moons : MoonClick(moon)
    \/ DocumentClick
    \/ \E moon \in Moons : MouseEnter(moon)
    \/ \E moon \in Moons : MouseLeave(moon)

SpecTools == ToolsInit /\ [][NextTools]_vars

-----------------------------------------------------------------------------
(* Properties of the particle globe *)

Particles == 1..ParticleCount

HasZeroSide(size) == size[1] = 0 \/ size[2] = 0

\* C1: whatever handler runs (frame callbacks, pointer moves, clicks,
\* touches, resizes, visibility changes), the entries of originalPositions
\* keep the values setupGlobe wrote, and the number of particles in each
\* buffer stays the same.
C1_OriginalPositionsKept ==
    [][/\ originalPositions' = originalPositions
       /\ DOMAIN animatedPositions' = DOMAIN originalPositions
       /\ DOMAIN colors' = DOMAIN originalPositions]_vars

\* A state where frames and pointer events have run and the animated
\* positions and colours have moved away from their initial values.
C1_Witness ==
    /\ renderCalls >= 2
    /\ framesSinceInput >= 0
    /\ \E i \in Particles : animatedPositions[i] # originalPositions[i]
    /\ \E i \in Particles : colors[i] # baseColor
    /\ \E rnd \in DrawSequences : originalPositions = SetupPositions(rnd)

\* C2: after a hit (clickStrength set to 15) and with no further hit,
\* clickStrength never increases, it is never strictly between 0 and 0.01
\* once init has run, and it is 0 from the 144th executed frame update after
\* the hit on.
C2_StrengthDecays ==
    /\ [](framesSinceHit >= 144 => clickStrength = 0)
    /\ [](clickStrength = 0 \/ clickStrength >= CLICK_EPSILON)
    /\ [][clickStrength' > clickStrength
            => framesSinceHit' = 0 /\ clickStrength' = CLICK_STRENGTH]_vars

\* The 144th executed frame update after a hit has run.
C2_Witness == framesSinceHit = 144 /\ clickStrength = 0 /\ clickPoint # Zero3

\* C3: a frame callback that runs while isInView is false writes neither
\* buffer and makes no render call.
C3_HiddenFrameDoesNothing ==
    [][(lastOp' = "animate" /\ ~isInView)
         => /\ animatedPositions' = animatedPositions
            /\ colors' = colors
            /\ bufferVersion' = bufferVersion
            /\ renderCalls' = renderCalls]_vars

\* A frame callback has run while the globe was out of view, after frames
\* that did their work.
C3_Witness == lastOp = "animate" /\ ~isInView /\ renderCalls >= 1 /\ bufferVersion[1] >= 1

\* C4: in an executed frame update with clickStrength 0, every particle
\* that is not within the hover radius of the pointer point has as target
\* its shimmer position: original position plus normal times noise times
\* amplitude.
C4_IdleTargetIsShimmer ==
    (frame.executed /\ frame.strength = 0) =>
        \A i \in Particles :
            LET orig == originalPositions[i]
                noise == NoiseValue(noiseSeed, orig, getElapsedTime(clockReads - 1))
                shimmer == VAdd(orig, MultiplyScalar(Normalize(orig),
                                         RoundDiv(noise * NOISE_AMPLITUDE, 1000)))
            IN  DistanceTo(shimmer, frame.mouse3D) >= MOUSE_INFLUENCE_RADIUS
                    => frame.target[i] = shimmer

\* On a pointer device the pointer ray hits the sphere, no particle is within
\* the hover radius of the hit point, and the strength is 0.
C4_Witness ==
    /\ frame.executed /\ frame.strength = 0 /\ ~isTouchDevice
    /\ frame.mouse3D # Zero3
    /\ \A i \in Particles :
          /\ DistanceTo(frame.shimmer[i], frame.mouse3D) >= MOUSE_INFLUENCE_RADIUS
          /\ frame.target[i] = frame.shimmer[i]
          /\ frame.shimmer[i] # originalPositions[i]

\* C5: a step taken while the container's clientWidth or clientHeight is 0
\* (onWindowResize called by the resize event or by animate) leaves
\* camera.aspect, the projection matrix and the renderer size unchanged, and
\* the aspect is never a ratio with a zero term.
C5_ZeroSizeResizeIgnored ==
    /\ [](cameraAspect[1] # 0 /\ cameraAspect[2] # 0)
    /\ [][HasZeroSide(containerSize)
            => /\ cameraAspect' = cameraAspect
               /\ projectionMatrix' = projectionMatrix
               /\ rendererSize' = rendererSize]_vars

\* The resize handler has run on a container whose height alone is 0.
C5_Witness ==
    lastOp = "resize" /\ containerSize[1] > 0 /\ containerSize[2] = 0

\* C6: from the 144th executed frame update after the last pointer, click
\* or touch event on (the bound within which the click impulse is gone), the
\* frame update adds no repulsion to any particle, neither hover nor click
\* impulse, whatever the last pointer position was.
C6_IdleAfterInputStops ==
    (frame.executed /\ framesSinceInput >= 144) =>
        \A i \in Particles : ~frame.hover[i] /\ ~frame.click[i]

\* C7: a step of triggerDisperse whose ray (through the pointer coordinates
\* it has just stored) hits the sphere sets clickPoint to the nearest hit
\* point and clickStrength to 15; one whose ray misses changes neither.
C7_DisperseHitOrMiss ==
    [][lastOp' = "triggerDisperse" =>
         LET intersects == Raycast(mouse', projectionMatrix, cameraAzimuth)
         IN  IF Len(intersects) > 0
             THEN clickPoint' = intersects[1] /\ clickStrength' = CLICK_STRENGTH
             ELSE clickPoint' = clickPoint /\ clickStrength' = clickStrength]_vars

\* triggerDisperse has just missed the sphere while an earlier hit was
\* still decaying.
C7_Witness ==
    /\ lastOp = "triggerDisperse"
    /\ Raycast(mouse, projectionMatrix, cameraAzimuth) = << >>
    /\ framesSinceHit >= 1
    /\ clickStrength > 0 /\ clickStrength < CLICK_STRENGTH

\* C8: on a touch device the target of every particle in every executed
\* frame update is its shimmer position plus the click impulse alone: the
\* impulse for a particle within radius 3 of the tap point while the
\* strength is positive, nothing otherwise, whatever the pointer coordinates.
C8_TouchHasNoHover ==
    (isTouchDevice /\ frame.executed) =>
        \A i \in Particles :
            LET w == frame.shimmer[i]
                d == DistanceTo(w, frame.point)
                push == RoundDiv((CLICK_INFLUENCE_RADIUS - d) * RoundDiv(frame.strength, 1000),
                                 CLICK_INFLUENCE_RADIUS)
            IN  /\ ~frame.hover[i]
                /\ frame.target[i] =
                      IF frame.strength > 0 /\ d < CLICK_INFLUENCE_RADIUS
                      THEN VAdd(w, MultiplyScalar(Normalize(VSub(w, frame.point)), push))
                      ELSE w

\* On a touch device a tap has hit the sphere, and in a following frame a
\* particle within the hover radius of the pointer point is pushed by the
\* click impulse.
C8_Witness ==
    /\ isTouchDevice /\ frame.executed /\ frame.strength > 0
    /\ mouse # InitialMouse
    /\ \E i \in Particles :
          /\ DistanceTo(frame.shimmer[i], frame.mouse3D) < MOUSE_INFLUENCE_RADIUS
          /\ DistanceTo(frame.shimmer[i], frame.point) < CLICK_INFLUENCE_RADIUS
          /\ frame.click[i]
          /\ frame.target[i] # frame.shimmer[i]

\* C9: isRendered becomes true only in a frame in which onWindowResize
\* applied the container's non-zero width and height to the camera and the
\* renderer.
C9_SizedWhenRendered ==
    [][(~isRendered /\ isRendered')
         => /\ lastOp' = "animate"
            /\ HasArea(containerSize)
            /\ cameraAspect' = containerSize
            /\ projectionMatrix' = containerSize
            /\ rendererSize' = containerSize]_vars

\* C10: once init has run exactly one frame callback is pending, whether the
\* frames run in view or out of view, and every callback that runs in view
\* performs one update and one render.
C10_OneCallbackPending ==
    /\ [](initDone => pendingFrames = 1)
    /\ [][(initDone /\ lastOp' = "animate" /\ isInView)
            => /\ renderCalls' = renderCalls + 1
               /\ bufferVersion' = <<bufferVersion[1] + 1, bufferVersion[2] + 1>>
               /\ clockReads' = clockReads + 1]_vars

\* A frame callback has run out of view after frames that did their work,
\* and one callback is pending.
C10_Witness ==
    /\ initDone /\ pendingFrames = 1
    /\ lastOp = "animate" /\ ~isInView
    /\ renderCalls >= 1 /\ framesSinceInput >= 0

-----------------------------------------------------------------------------
(* Properties of the page *)

\* C11: once initializeModules has run, init has been invoked on every
\* module of the list, in list order and once each, whichever inits threw;
\* every throw was logged and the beforeunload cleanup is registered.
C11_EveryModuleInitialized ==
    initLog # << >> =>
        /\ initLog = Modules
        /\ cleanupListeners = 1
        /\ \A k \in 1..Len(errorLog) : \E j \in 1..Len(initLog) : errorLog[k] = initLog[j]

\* An init that is not the last of the list threw, and the run completed.
C11_Witness ==
    /\ initLog = Modules
    /\ cleanupListeners = 1
    /\ errorLog # << >>
    /\ errorLog[1] # Modules[Len(Modules)]

\* C12: when the hamburger, the overlay or the close button is missing,
\* Navigation.init has thrown nothing and registered no listener, and the
\* menu is never open.
C12_MissingElementNoOp ==
    (/\ initLog # << >>
     /\ ~({".hamburger", "#mobile-nav-overlay", "#close-nav-btn"} \subseteq dom))
        => /\ navListeners = {}
           /\ \A k \in 1..Len(errorLog) : errorLog[k] # "Navigation"
           /\ ~overlayActive

\* C14: a press of Escape while the menu is open leaves neither the
\* hamburger nor the overlay active, body overflow '' and no Lenis
\* instance stopped; a press while the menu is closed changes nothing of
\* the navigation.
C14_EscapeClosesMenu ==
    [][pageOp' = "keydown.Escape" =>
          IF overlayActive
          THEN /\ ~hamburgerActive'
               /\ ~overlayActive'
               /\ bodyOverflow' = ""
               /\ lenis' # "stopped"
          ELSE UNCHANGED navVars]_vars

\* The values the pattern of the newsletter accepts: no blank, one at sign
\* that is not the first character, and after it a dot that neither
\* follows it at once nor ends the value.
MatchesEmailPattern(email) ==
    /\ \A k \in 1..Len(email) : email[k] # " "
    /\ Cardinality({k \in 1..Len(email) : email[k] = "@"}) = 1
    /\ \E i \in 2..Len(email) :
          /\ email[i] = "@"
          /\ \E j \in (i + 2)..(Len(email) - 1) : email[j] = "."

\* C13: a newsletter submission shows the success toast and resets the
\* form exactly when the email value is non-empty and matches the pattern;
\* otherwise it shows an error toast, the error element (when the document
\* has one) carries the toast's message and class 'form-error', and the
\* typed value is kept.
C13_SubmissionOutcome ==
    [][pageOp' = "submit" =>
          LET email == IF "input[type=email]" \in dom THEN emailValue ELSE << >>
              accepted == email # << >> /\ MatchesEmailPattern(email)
              toast == notifications'[Len(notifications')]
          IN  /\ Len(notifications') = Len(notifications) + 1
              /\ toast.type = "success" <=> accepted
              /\ accepted => emailValue' = << >>
              /\ ~accepted =>
                    /\ toast.type = "error"
                    /\ emailValue' = emailValue
                    /\ "#newsletter-error" \in dom =>
                          /\ errorElement'.textContent = toast.message
                          /\ errorElement'.className = "form-error"]_vars

\* A value with an at sign and no dot after it has just been refused.
C13_Witness ==
    /\ pageOp = "submit"
    /\ emailValue = <<"a", "@", "a">>
    /\ notifications # << >>
    /\ notifications[Len(notifications)].type = "error"
    /\ errorElement.className = "form-error"

\* C15: after a scroll update with direction 1 above the threshold the
\* navbar has class 'navbar-hidden' and aria-hidden 'true'; after an update
\* with direction -1 or at most the threshold it lacks the class; and once
\* NavbarScrollBehavior.init has run the class is present exactly when the
\* last value written to aria-hidden is 'true'.
C15_NavbarFollowsScroll ==
    /\ pageOp = "scrollUpdate" =>
          /\ (lastUpdate[1] = 1 /\ lastUpdate[2] > 150) =>
                 navbarHidden /\ ariaHidden = "true"
          /\ (lastUpdate[1] = -1 \/ lastUpdate[2] <= 150) => ~navbarHidden
    /\ (loadHandled /\ ".navbar" \in dom) => (navbarHidden <=> ariaHidden = "true")

\* A scroll down past the threshold has just hidden the navbar.
C15_Witness ==
    /\ pageOp = "scrollUpdate"
    /\ lastUpdate = <<1, 151>>
    /\ navbarHidden
    /\ ariaHidden = "true"

-----------------------------------------------------------------------------
(* Properties of the particle globe: setup, frame update and handlers *)

\* C16: the original positions are the sphere points of a sequence of
\* draws, particle i taking the draws 2i-1 (u) and 2i (v) and no other, so
\* equal draws give equal positions; as setupGlobe leaves them, the animated
\* positions equal the original ones and every color is the base color.
C16_SetupFromOwnDraws ==
    /\ \E rnd \in DrawSequences :
          \A i \in Particles :
              originalPositions[i] = SpherePoint(rnd[2 * i - 1], rnd[2 * i])
    /\ lastOp = "setup" =>
          /\ animatedPositions = originalPositions
          /\ \A i \in Particles : colors[i] = baseColor

\* setupGlobe has just run and gave two particles different points.
C16_Witness ==
    /\ lastOp = "setup"
    /\ \E i, j \in Particles : originalPositions[i] # originalPositions[j]

\* The strength after one decay step (lines 1077-1078), written out.
DecayedOnce(strength) ==
    LET decayed == IF strength > 0 THEN RoundDiv(strength * 95, 100) ELSE strength
    IN  IF decayed < 10000 THEN 0 ELSE decayed

\* C17, as the code has it: an executed frame decays the strength once,
\* before the particle loop, and every particle's click displacement is
\* computed from the decayed strength; the first frame after a hit pushes
\* with 15 * 0.95 = 14.25.
C17_DecayBeforeDisplacement ==
    [][renderCalls' = renderCalls + 1 =>
          /\ clickStrength' = DecayedOnce(clickStrength)
          /\ frame'.strength = clickStrength'
          /\ framesSinceHit = 0 => frame'.strength = 14250000
          /\ \A i \in Particles :
                /\ frame'.click[i] =
                      ClickApplies(frame'.shimmer[i], clickPoint, clickStrength')
                /\ frame'.target[i] =
                      TargetPos(frame'.shimmer[i], frame'.mouse3D, isTouchDevice,
                                clickPoint, clickStrength')]_vars

\* The first frame after a hit has pushed a particle with strength 14.25.
C17_Witness ==
    /\ frame.executed
    /\ framesSinceHit = 1
    /\ frame.strength = 14250000
    /\ \E i \in Particles : frame.click[i] /\ frame.target[i] # frame.shimmer[i]

\* C17, as the claim has it: the first executed frame after a hit pushes
\* with the full seeded strength 15, the decay being the frame's last step.
C17_FullStrengthAfterHit ==
    (frame.executed /\ framesSinceHit = 1) => frame.strength = CLICK_STRENGTH

\* C18: an executed frame moves every coordinate of every particle from
\* its previous animated value by 0.08 of its distance to the target, a
\* function of the previous position and the target alone; the particle
\* ends no farther from the target than it was and not beyond it.
C18_LerpTowardsTarget ==
    [][renderCalls' = renderCalls + 1 =>
          \A i \in Particles :
              /\ \A k \in 1..3 :
                    LET previous == animatedPositions[i][k]
                        target == frame'.target[i][k]
                        new == animatedPositions'[i][k]
                    IN  /\ new = previous + RoundDiv((target - previous) * 80, 1000)
                        /\ Abs(target - new) <= Abs(target - previous)
                        /\ previous <= target => new <= target
                        /\ previous >= target => new >= target
              /\ DistanceTo(animatedPositions'[i], frame'.target[i])
                    <= DistanceTo(animatedPositions[i], frame'.target[i])]_vars

\* A frame has moved a particle towards a target it has not reached.
C18_Witness ==
    /\ frame.executed
    /\ renderCalls >= 2
    /\ \E i \in Particles :
          /\ animatedPositions[i] # frame.target[i]
          /\ animatedPositions[i] # originalPositions[i]

\* The handlers of input events.
InputOps == {"mousemove", "triggerDisperse", "touchstart", "resize", "observer"}

\* C19: onMouseMove, onMouseClick, onTouchStart, triggerDisperse,
\* onWindowResize and the intersection observer's callback write neither
\* the position buffers nor the color buffer, flag no buffer and render
\* nothing; all they change is the pointer coordinates, clickPoint,
\* clickStrength, isInView and the camera and renderer size.
C19_HandlersLeaveBuffers ==
    [][lastOp' \in InputOps =>
          UNCHANGED <<originalPositions, animatedPositions, colors, bufferVersion,
                      renderCalls, frame, isRendered, isTouchDevice, noiseSeed,
                      clockReads, cameraAzimuth, containerSize, pendingFrames>>]_vars

\* A click has hit the sphere after a frame had moved the particles.
C19_Witness ==
    /\ lastOp = "triggerDisperse"
    /\ framesSinceHit = 0
    /\ clickStrength = CLICK_STRENGTH
    /\ renderCalls >= 1
    /\ animatedPositions # originalPositions

\* C20: the initial pointer coordinates miss the sphere, and in an executed
\* frame whose pointer ray misses it the pointer point is the origin, every
\* shimmer position lies at least GLOBE_RADIUS - NOISE_AMPLITUDE from it,
\* which is more than the influence radius, and no particle is repelled.
C20_MissMeansNoHover ==
    /\ [](mouse = InitialMouse => Raycast(mouse, projectionMatrix, cameraAzimuth) = << >>)
    /\ [][(/\ renderCalls' = renderCalls + 1
            /\ Raycast(mouse, projectionMatrix', cameraAzimuth) = << >>) =>
              /\ frame'.mouse3D = Zero3
              /\ \A i \in Particles :
                    /\ Length(frame'.shimmer[i]) >= GLOBE_RADIUS - NOISE_AMPLITUDE
                    /\ DistanceTo(frame'.shimmer[i], frame'.mouse3D)
                          > MOUSE_INFLUENCE_RADIUS
                    /\ ~frame'.hover[i]]_vars

\* On a pointer device a frame has run before any pointer event.
C20_Witness ==
    /\ ~isTouchDevice
    /\ frame.executed
    /\ mouse = InitialMouse
    /\ frame.mouse3D = Zero3
    /\ \A i \in Particles : ~frame.hover[i]


-----------------------------------------------------------------------------
(* Properties of the page, continued *)

ExpandedQuestions == {q \in Questions : faqExpanded[q]}

\* C21: after any sequence of toggles at most one question is expanded, a
\* question is expanded exactly when its answer is not aria-hidden, and a
\* toggle of a collapsed question leaves exactly that one expanded while a
\* toggle of the expanded one leaves none expanded.
C21_OneQuestionExpanded ==
    /\ [](/\ Cardinality(ExpandedQuestions) <= 1
          /\ \A q \in Questions : faqExpanded[q] <=> ~faqAriaHidden[q])
    /\ [][pageOp' = "toggleFAQ" =>
            ExpandedQuestions' = IF faqExpanded[faqToggled'] THEN {}
                                 ELSE {faqToggled'}]_vars

\* A question was opened while another one was expanded.
C21_Witness ==
    /\ pageOp = "toggleFAQ"
    /\ ExpandedQuestions = {faqToggled}
    /\ \E k \in 1..Len(faqTweens) :
          faqTweens[k][1] # faqToggled /\ faqTweens[k][2] = "open"

\* C22: once every animation has finished, a question is expanded exactly
\* when its answer is displayed.
C22_SettledDisplayMatches ==
    faqTweens = << >> =>
        \A q \in Questions : faqExpanded[q] <=> faqDisplay[q] # "none"

\* C23: whenever the overlay is active, the body's overflow is 'hidden' and
\* every Lenis instance there is, is stopped.
C23_OpenMenuLocksScroll ==
    overlayActive =>
        /\ bodyOverflow = "hidden"
        /\ lenis # "running"
        /\ \A k \in 1..Len(orphanLenis) : orphanLenis[k] # "running"

\* C24: a Lenis instance exists only after initScrollSystem has run, that
\* is after the loader is hidden, the entrance animation has completed and
\* the hero video, if there is one, has loaded.
C24_LenisAfterLoading ==
    lenisCreated > 0 =>
        /\ scrollSystemInits > 0
        /\ loadingPhase = "entered"
        /\ ".hero-bg-video" \in dom => videoReadyState >= 1

\* C25: at most one Lenis instance is created, at most one scroller proxy
\* registered and at most one animation-frame loop started.
C25_OneLenis ==
    /\ lenisCreated <= 1
    /\ scrollerProxies <= 1
    /\ rafLoops <= 1

\* C26: once the entrance animation has completed, initScrollSystem
\* eventually runs, and it never runs twice.
C26_ScrollSystemInitOnce ==
    /\ [](scrollSystemInits <= 1)
    /\ (loadingPhase = "entered") ~> (scrollSystemInits = 1)

\* C27: whenever the tools section is not intersecting, the orbit of every
\* moon is paused.
C27_PausedOutsideViewport ==
    toolsIntersecting = "outside" =>
        \A m \in Moons : moonPlayState[m] = "paused"

ActivatedMoons == {m \in Moons : moonActivated[m]}

\* What a tap on a moon and a tap outside do to the moon that was active.
TapResets ==
    /\ (pageOp' = "moon.click") =>
          (/\ activeMoon' = IF activeMoon = eventMoon' THEN 0 ELSE eventMoon'
           /\ (activeMoon \in {0, activeMoon'}
                  \/ moonPlayState'[activeMoon] = "running"))
    /\ (pageOp' = "document.click") =>
          (/\ activeMoon' = 0
           /\ (activeMoon = 0 \/ moonPlayState'[activeMoon] = "running"))

\* C28: on touch, at most one moon is activated and activeMoon refers to
\* exactly it or is null; a tap on another moon resets the previous one and
\* activates the tapped one, a tap on the active moon resets it, and a tap
\* outside resets it.
C28_OneActiveMoon ==
    /\ [](toolsTouch =>
            /\ Cardinality(ActivatedMoons) <= 1
            /\ ActivatedMoons = IF activeMoon = 0 THEN {} ELSE {activeMoon}
            /\ activeMoon # 0 => moonPlayState[activeMoon] = "paused")
    /\ [][TapResets]_vars

\* A moon was tapped while another one was active.
C28_Witness ==
    /\ toolsTouch
    /\ pageOp = "moon.click"
    /\ activeMoon = eventMoon
    /\ \E m \in Moons : m # activeMoon /\ moonPlayState[m] = "running"
                        /\ moonPlayState[activeMoon] = "paused"
    /\ toolsIntersecting = "inside"

\* C29: a successful submission leaves no error state, whatever failed
\* submissions came before: the error element is empty with class
\* 'sr-only' and the email input is not aria-invalid.
C29_SuccessClearsErrors ==
    [][(/\ pageOp' = "submit"
        /\ Len(notifications') > Len(notifications)
        /\ notifications'[Len(notifications')].type = "success")
          => /\ "#newsletter-error" \in dom =>
                   /\ errorElement'.textContent = ""
                   /\ errorElement'.className = "sr-only"
             /\ ariaInvalid' # "true"]_vars

ToastIds == {notifications[k].id : k \in 1..Len(notifications)}

ShowOps == {"submit", "contact.click"}

\* C30: every notification appended is eventually removed, by the one step
\* of its own last timer and by nothing else, whatever other notifications
\* are shown meanwhile; and once no more messages are shown, the number of
\* notification elements returns to zero.
C30_ToastsRemoved ==
    /\ \A id \in 1..MaxToasts : (id \in ToastIds) ~> (id \notin ToastIds)
    /\ [][Len(notifications') < Len(notifications) =>
            /\ pageOp' = "notification.removed"
            /\ Head(notifications).stage = "leaving"
            /\ notifications' = Tail(notifications)]_vars
    /\ (<>[][pageOp' \notin ShowOps]_vars) => <>[](notifications = << >>)

\* A notification has slid out and waits for its removal.
C30_Witness ==
    /\ Len(notifications) > 1
    /\ Head(notifications).stage = "leaving"
    /\ notifications[2].id < Head(notifications).id
    /\ pageOp = "notification.slideOut"

=============================================================================
